---- MODULE Spec2Model ----
(***************************************************************************)
(* Chunk graph core of the bundler: lib/Chunk.js, lib/util/SortableSet.js  *)
(* and lib/DependenciesBlock.js, as a state machine.                       *)
(*                                                                         *)
(* Chunks are the numbers 1..NumChunks, modules the numbers 101.., blocks  *)
(* 1..NumBlocks.  Every SortableSet is a record holding its members in     *)
(* iteration (insertion) order together with the remembered comparator.    *)
(***************************************************************************)
EXTENDS Integers, Sequences, FiniteSets, TLC

\* ------------------------------------------------------------------ bounds
NumChunks == 3
NumModules == 2
NumBlocks == 1
MaxEdges == 2
MaxModuleRefs == 1
MaxEntryChunks == 1
MaxOps == 2
MaxScratchOps == 3
MaxCostEdges == 2
MaxCostModuleRefs == 2
MaxCostEntryChunks == 2
MaxCostOps == 1
MaxSortOps == 3
MaxValue == 3
MaxMapEdges == 3
MaxMergeEdges == 6
MaxMergeOps == 1
NumDependenciesBlocks == 4
MaxUnidentified == 1
MaxOtherChunkLists == 1
MaxMapEntryChunks == 2
MaxMapOps == 2

Chunks == 1..NumChunks
Modules == 101..(100 + NumModules)
Blocks == 1..NumBlocks
Reasons == {"r1", "r2"}
NoReason == "none"
NoName == "unnamed"
Names == {"n1"}
\* the receiver or argument slot of a call that has none: a value that is no chunk
NoChunk == CHOOSE c \in 0..NumChunks : c \notin Chunks
DependenciesBlocks == 1..NumDependenciesBlocks
\* block.parent of a block that was added to none
NoBlock == CHOOSE b \in 0..NumDependenciesBlocks : b \notin DependenciesBlocks
Contexts == {"ctx"}
NullFn == "null"
NullId == 0 - 1
Ids == 0..(NumChunks - 1)
Values == 1..MaxValue
Comparators == {"ascending", "descending"}

\* ------------------------------------------------------------------ state
VARIABLES
    chunks,          \* chunk -> SortableSet of child chunks   (Chunk._chunks)
    parents,         \* chunk -> SortableSet of parent chunks  (Chunk._parents)
    modules,         \* chunk -> SortableSet of modules        (Chunk._modules)
    blocks,          \* chunk -> sequence of blocks            (Chunk.blocks)
    entrypoints,     \* chunk -> sequence of entrypoints       (Chunk.entrypoints)
    origins,         \* chunk -> sequence of origin objects    (Chunk.origins)
    originReasons,   \* origin object -> its reasons list, <<>> when unset
    blockChunks,     \* block -> [isNull, list]                (block.chunks)
    chunkReason,     \* block -> reason or NoReason            (block.chunkReason)
    entryChunks,     \* entrypoint -> sequence of chunks       (Entrypoint.chunks)
    variables,       \* block -> sequence of variables         (DependenciesBlock.variables)
    chunkName,       \* chunk -> name or NoName                (Chunk.name)
    maps,            \* what the last getChunkMaps call returned, and its arguments
    tree,            \* dependencies block -> [blocks, parent, hasIdentifier, chunks]
    ident,           \* what the last getIdentForChunk call returned
    id,              \* chunk -> id or NullId                  (Chunk.id)
    moduleId,        \* module -> id or NullId                 (Module.id)
    set,             \* a SortableSet of numbers, used on its own
    setPre,          \* that set as it was when its last method was called
    setLast,         \* its last method call: name, argument, comparator calls
    ran,             \* comparators sortWith ran with since the last add
    pre,             \* the heap as it was when the last operation was called
    last,            \* the last operation: name, receiver, argument, result
    opsLeft          \* number of operations the run may still perform

heapVars == <<chunks, parents, modules, blocks, entrypoints, origins,
              originReasons, blockChunks, chunkReason, entryChunks, variables>>
vars == <<chunks, parents, modules, blocks, entrypoints, origins,
          originReasons, blockChunks, chunkReason, entryChunks, variables,
          chunkName, maps, tree, ident, id, moduleId, set, setPre, setLast, ran, pre, last, opsLeft>>
setVars == <<set, setPre, setLast, ran>>

\* ------------------------------------------------------------------ helpers
Range(s) == {s[i] : i \in 1..Len(s)}

IndexOf(s, x) ==
    IF x \in Range(s) THEN CHOOSE i \in 1..Len(s) : s[i] = x /\ \A j \in 1..(i - 1) : s[j] # x
    ELSE 0

RemoveAt(s, i) == [k \in 1..(Len(s) - 1) |-> IF k < i THEN s[k] ELSE s[k + 1]]

\* Number(v) of the relational comparison: null converts to 0
ToNumber(v) == IF v = NullId THEN 0 ELSE v

IdOf(x) == IF x \in Modules THEN moduleId[x] ELSE id[x]

\* ------------------------------------------------------------------ comparators
sortById(a, b) ==
    IF ToNumber(IdOf(a)) < ToNumber(IdOf(b)) THEN 0 - 1
    ELSE IF ToNumber(IdOf(b)) < ToNumber(IdOf(a)) THEN 1
    ELSE 0

\* a module's identifier is fixed for its lifetime: the module number stands for it
sortByIdentifier(a, b) ==
    IF a > b THEN 1
    ELSE IF a < b THEN 0 - 1
    ELSE 0

ascending(a, b) == a - b

descending(a, b) == b - a

Compare(fn, a, b) ==
    CASE fn = "sortById" -> sortById(a, b)
      [] fn = "sortByIdentifier" -> sortByIdentifier(a, b)
      [] fn = "ascending" -> ascending(a, b)
      [] fn = "descending" -> descending(a, b)

\* Array.prototype.sort with a comparator: the stable arrangement of s
ArraySort(s, fn) ==
    LET n == Len(s)
        rank(i) == Cardinality({j \in 1..n :
                       \/ Compare(fn, s[j], s[i]) < 0
                       \/ Compare(fn, s[j], s[i]) = 0 /\ j < i}) + 1
    IN [k \in 1..n |-> s[CHOOSE i \in 1..n : rank(i) = k]]

\* ------------------------------------------------------------------ SortableSet
SortableSet(initialIterable, defaultSort, noCache) ==
    [items |-> initialIterable, sortFn |-> defaultSort,
     lastActiveSortFn |-> NullFn, noCache |-> noCache]

has(s, value) == value \in Range(s.items)

size(s) == Len(s.items)

\* mutant: add keeps the remembered comparator
addKeepCache(s, value) ==
    [s EXCEPT !.items = IF value \in Range(@) THEN @ ELSE Append(@, value)]

add(s, value) ==
    [s EXCEPT !.lastActiveSortFn = NullFn,
              !.items = IF value \in Range(@) THEN @ ELSE Append(@, value)]

delete(s, value) ==
    [s EXCEPT !.items = SelectSeq(@, LAMBDA x : x # value)]

clear(s) == [s EXCEPT !.items = <<>>]

\* comparator invocations of Array.prototype.sort: none below two elements,
\* otherwise at least one per adjacent pair (the count of a sorted input)
SortCalls(s) == IF Len(s) < 2 THEN 0 ELSE Len(s) - 1

\* mutant: the remembered comparator is never consulted
sortWithAlways(s, sortFn) ==
    [set |-> [s EXCEPT !.items = ArraySort(@, sortFn), !.lastActiveSortFn = sortFn],
     sorted |-> TRUE, calls |-> SortCalls(s.items)]

\* sortWith(sortFn): the set afterwards, whether the sorting path was taken,
\* and how often sortFn was invoked
sortWith(s, sortFn) ==
    IF ~s.noCache /\ (size(s) = 0 \/ sortFn = s.lastActiveSortFn)
    THEN [set |-> s, sorted |-> FALSE, calls |-> 0]
    ELSE [set |-> [s EXCEPT !.items = ArraySort(@, sortFn), !.lastActiveSortFn = sortFn],
          sorted |-> TRUE, calls |-> SortCalls(s.items)]

sort(s) == sortWith(s, s.sortFn)


\* ------------------------------------------------------------------ the heap
\* The objects an operation can touch, as one record; `raised` is set when the
\* operation throws, and the statements after the throw are not executed.
Heap ==
    [chunks |-> chunks, parents |-> parents, modules |-> modules,
     blocks |-> blocks, entrypoints |-> entrypoints, origins |-> origins,
     originReasons |-> originReasons, blockChunks |-> blockChunks,
     chunkReason |-> chunkReason, entryChunks |-> entryChunks,
     variables |-> variables, raised |-> FALSE]

NullChunks == [isNull |-> TRUE, list |-> <<>>]

ChunkList(list) == [isNull |-> FALSE, list |-> list]

\* ------------------------------------------------------------------ Chunk
isInitial(H, this) == Len(H.entrypoints[this]) > 0

hasRuntime(H, this) ==
    IF Len(H.entrypoints[this]) = 0 THEN FALSE
    ELSE LET ec == H.entryChunks[H.entrypoints[this][1]]
         IN Len(ec) > 0 /\ ec[1] = this

addChunkResult(H, this, chunk) == ~has(H.chunks[this], chunk)

addChunk(H, this, chunk) ==
    IF has(H.chunks[this], chunk) THEN H
    ELSE [H EXCEPT !.chunks[this] = add(@, chunk)]

addParentResult(H, this, parentChunk) == ~has(H.parents[this], parentChunk)

addParent(H, this, parentChunk) ==
    IF has(H.parents[this], parentChunk) THEN H
    ELSE [H EXCEPT !.parents[this] = add(@, parentChunk)]

addModule(H, this, module) ==
    IF ~has(H.modules[this], module)
    THEN [H EXCEPT !.modules[this] = add(@, module)]
    ELSE H

\* addToCollection(this.blocks, block): a block is never the chunk itself
addBlock(H, this, block) ==
    IF block \in Range(H.blocks[this]) THEN H
    ELSE [H EXCEPT !.blocks[this] = Append(@, block)]

removeChunkResult(H, this, chunk) == has(H.chunks[this], chunk)

removeParentResult(H, this, chunk) == has(H.parents[this], chunk)

\* mutant: the child is dropped without telling it
removeChunkOneSided(H, this, chunk) ==
    IF ~has(H.chunks[this], chunk) THEN H
    ELSE [H EXCEPT !.chunks[this] = delete(@, chunk)]

RECURSIVE removeChunk(_, _, _), removeParent(_, _, _)

removeChunk(H, this, chunk) ==
    IF ~has(H.chunks[this], chunk) THEN H
    ELSE removeParent([H EXCEPT !.chunks[this] = delete(@, chunk)], chunk, this)

removeParent(H, this, chunk) ==
    IF ~has(H.parents[this], chunk) THEN H
    ELSE removeChunk([H EXCEPT !.parents[this] = delete(@, chunk)], chunk, this)

\* Module.removeChunk(chunk), the reciprocal hook: it drops the module's back
\* reference and calls chunk.removeModule, which deletes it from chunk._modules
moduleRemoveChunk(H, module, chunk) ==
    [H EXCEPT !.modules[chunk] = delete(@, module)]

\* ---- remove(reason)
RECURSIVE removeModules(_, _, _, _)
removeModules(H, this, clone, i) ==
    IF i > Len(clone) THEN H
    ELSE removeModules(moduleRemoveChunk(H, clone[i], this), this, clone, i + 1)

RECURSIVE removeSubChunks(_, _, _, _)
removeSubChunks(H, this, parentChunk, i) ==
    IF i > size(H.chunks[this]) THEN H
    ELSE LET chunk == H.chunks[this].items[i]
             H1 == addParent(H, chunk, parentChunk)
             H2 == addChunk(H1, parentChunk, chunk)
         IN removeSubChunks(H2, this, parentChunk, i + 1)

RECURSIVE removeParents(_, _, _)
removeParents(H, this, i) ==
    IF i > size(H.parents[this]) THEN H
    ELSE LET parentChunk == H.parents[this].items[i]
             H1 == [H EXCEPT !.chunks[parentChunk] = delete(@, this)]
         IN removeParents(removeSubChunks(H1, this, parentChunk, 1), this, i + 1)

RECURSIVE removeChildren(_, _, _)
removeChildren(H, this, i) ==
    IF i > size(H.chunks[this]) THEN H
    ELSE LET chunk == H.chunks[this].items[i]
         IN removeChildren([H EXCEPT !.parents[chunk] = delete(@, this)], this, i + 1)

\* mutant: the emptied list is left in place, no null marker, no reason
removeBlockKeepEmpty(H, this, block, reason) ==
    IF H.blockChunks[block].isNull THEN [H EXCEPT !.raised = TRUE]
    ELSE LET idx == IndexOf(H.blockChunks[block].list, this)
         IN IF idx >= 1
            THEN [H EXCEPT !.blockChunks[block] =
                      ChunkList(RemoveAt(H.blockChunks[block].list, idx))]
            ELSE H

\* one block of the "cleanup blocks" loop; block.chunks.indexOf throws on null
removeBlock(H, this, block, reason) ==
    IF H.blockChunks[block].isNull THEN [H EXCEPT !.raised = TRUE]
    ELSE LET idx == IndexOf(H.blockChunks[block].list, this)
             spliced == RemoveAt(H.blockChunks[block].list, idx)
         IN IF idx >= 1
            THEN IF Len(spliced) = 0
                 THEN [H EXCEPT !.blockChunks[block] = NullChunks,
                                !.chunkReason[block] = reason]
                 ELSE [H EXCEPT !.blockChunks[block] = ChunkList(spliced)]
            ELSE H

RECURSIVE removeBlocks(_, _, _, _)
removeBlocks(H, this, reason, i) ==
    IF H.raised \/ i > Len(H.blocks[this]) THEN H
    ELSE removeBlocks(removeBlock(H, this, H.blocks[this][i], reason), this, reason, i + 1)

remove(H, this, reason) ==
    LET H1 == removeModules(H, this, H.modules[this].items, 1)
        H2 == removeParents(H1, this, 1)
        H3 == removeChildren(H2, this, 1)
    IN removeBlocks(H3, this, reason, 1)

\* ---- integrate(otherChunk, reason)
\* this.moveModule(module, otherChunk); the module's own chunk list and its
\* reasons belong to the Module collaborator
\* mutant: the module leaves this chunk and is added to no other
moveModuleDropped(H, this, module, otherChunk) ==
    moduleRemoveChunk(H, module, this)

moveModule(H, this, module, otherChunk) ==
    addModule(moduleRemoveChunk(H, module, this), otherChunk, module)

\* mutant: the new child is not told about its new parent
replaceChunkOneSided(H, this, oldChunk, newChunk) ==
    LET H1 == [H EXCEPT !.chunks[this] = delete(@, oldChunk)]
    IN IF this # newChunk /\ addParentResult(H1, newChunk, this)
       THEN addChunk(H1, this, newChunk)
       ELSE H1

replaceChunk(H, this, oldChunk, newChunk) ==
    LET H1 == [H EXCEPT !.chunks[this] = delete(@, oldChunk)]
    IN IF this # newChunk /\ addParentResult(H1, newChunk, this)
       THEN addChunk(addParent(H1, newChunk, this), this, newChunk)
       ELSE H1

replaceParentChunk(H, this, oldParentChunk, newParentChunk) ==
    LET H1 == [H EXCEPT !.parents[this] = delete(@, oldParentChunk)]
    IN IF this # newParentChunk /\ addChunkResult(H1, newParentChunk, this)
       THEN addParent(addChunk(H1, newParentChunk, this), this, newParentChunk)
       ELSE H1

\* mutant: an initial chunk takes any chunk it is a parent of
canBeIntegratedAnyParent(H, this, otherChunk) ==
    IF isInitial(H, otherChunk) THEN FALSE
    ELSE IF isInitial(H, this) /\ ~has(H.parents[otherChunk], this)
         THEN FALSE
         ELSE TRUE

canBeIntegrated(H, this, otherChunk) ==
    IF isInitial(H, otherChunk) THEN FALSE
    ELSE IF isInitial(H, this)
            /\ (size(H.parents[otherChunk]) # 1 \/ ~has(H.parents[otherChunk], this))
         THEN FALSE
         ELSE TRUE

RECURSIVE integrateModules(_, _, _, _, _)
integrateModules(H, this, otherChunk, otherChunkModules, i) ==
    IF i > Len(otherChunkModules) THEN H
    ELSE integrateModules(moveModule(H, otherChunk, otherChunkModules[i], this),
                          this, otherChunk, otherChunkModules, i + 1)

RECURSIVE integrateParents(_, _, _, _)
integrateParents(H, this, otherChunk, i) ==
    IF i > size(H.parents[otherChunk]) THEN H
    ELSE integrateParents(replaceChunk(H, H.parents[otherChunk].items[i], otherChunk, this),
                          this, otherChunk, i + 1)

RECURSIVE integrateChunks(_, _, _, _)
integrateChunks(H, this, otherChunk, i) ==
    IF i > size(H.chunks[otherChunk]) THEN H
    ELSE integrateChunks(replaceParentChunk(H, H.chunks[otherChunk].items[i], otherChunk, this),
                         this, otherChunk, i + 1)

integrateBlock(H, this, otherChunk, b, reason) ==
    LET bc == H.blockChunks[b]
        mapped == IF ~bc.isNull
                  THEN [k \in 1..Len(bc.list) |->
                           IF bc.list[k] = otherChunk THEN this ELSE bc.list[k]]
                  ELSE <<this>>
    IN addBlock([H EXCEPT !.blockChunks[b] = ChunkList(mapped),
                          !.chunkReason[b] = reason], this, b)

RECURSIVE integrateBlocks(_, _, _, _, _, _)
integrateBlocks(H, this, otherChunk, reason, n, i) ==
    IF i > n THEN H
    ELSE integrateBlocks(integrateBlock(H, this, otherChunk, H.blocks[otherChunk][i], reason),
                         this, otherChunk, reason, n, i + 1)

\* one origin of the this.origins loop: set, or prepend to, its reasons
integrateOrigin(H, origin, reason) ==
    IF H.originReasons[origin] = <<>>
    THEN [H EXCEPT !.originReasons[origin] = <<reason>>]
    ELSE IF H.originReasons[origin][1] # reason
         THEN [H EXCEPT !.originReasons[origin] = <<reason>> \o @]
         ELSE H

RECURSIVE integrateOrigins(_, _, _, _)
integrateOrigins(H, this, reason, i) ==
    IF i > Len(H.origins[this]) THEN H
    ELSE integrateOrigins(integrateOrigin(H, H.origins[this][i], reason), this, reason, i + 1)

\* lines 292-326: what integrate does once the merge is allowed
integrateMerge(H, this, otherChunk, reason) ==
    LET H1 == integrateModules(H, this, otherChunk, H.modules[otherChunk].items, 1)
        H2 == [H1 EXCEPT !.modules[otherChunk] = clear(@)]
        H3 == integrateParents(H2, this, otherChunk, 1)
        H4 == [H3 EXCEPT !.parents[otherChunk] = clear(@)]
        H5 == integrateChunks(H4, this, otherChunk, 1)
        H6 == [H5 EXCEPT !.chunks[otherChunk] = clear(@)]
        H7 == integrateBlocks(H6, this, otherChunk, reason, Len(H6.blocks[otherChunk]), 1)
        H8 == [H7 EXCEPT !.blocks[otherChunk] = <<>>]
        H9 == [H8 EXCEPT !.origins[this] = @ \o H8.origins[otherChunk]]
        H10 == integrateOrigins(H9, this, reason, 1)
    IN [H10 EXCEPT !.chunks[this] = delete(delete(@, otherChunk), this),
                   !.parents[this] = delete(delete(@, otherChunk), this)]

\* mutant: the merge runs without asking canBeIntegrated
integrateUnguarded(H, this, otherChunk, reason) ==
    integrateMerge(H, this, otherChunk, reason)

integrate(H, this, otherChunk, reason) ==
    IF ~canBeIntegrated(H, this, otherChunk) THEN H
    ELSE integrateMerge(H, this, otherChunk, reason)

\* ---- split(newChunk)
\* one block of the blocks loop; block.chunks.push throws on the null marker
splitBlock(H, newChunk, block) ==
    LET H1 == [H EXCEPT !.blocks[newChunk] = Append(@, block)]
    IN IF H1.blockChunks[block].isNull THEN [H1 EXCEPT !.raised = TRUE]
       ELSE [H1 EXCEPT !.blockChunks[block] = ChunkList(Append(@.list, newChunk))]

RECURSIVE splitBlocks(_, _, _, _, _)
splitBlocks(H, this, newChunk, n, i) ==
    IF H.raised \/ i > n THEN H
    ELSE splitBlocks(splitBlock(H, newChunk, H.blocks[this][i]), this, newChunk, n, i + 1)

RECURSIVE splitChunks(_, _, _, _)
splitChunks(H, this, newChunk, i) ==
    IF i > size(H.chunks[this]) THEN H
    ELSE LET chunk == H.chunks[this].items[i]
         IN splitChunks(addParent(addChunk(H, newChunk, chunk), chunk, newChunk),
                        this, newChunk, i + 1)

RECURSIVE splitParents(_, _, _, _)
splitParents(H, this, newChunk, i) ==
    IF i > size(H.parents[this]) THEN H
    ELSE LET parentChunk == H.parents[this].items[i]
         IN splitParents(addParent(addChunk(H, parentChunk, newChunk), newChunk, parentChunk),
                         this, newChunk, i + 1)

\* Entrypoint.insertChunk(newChunk, afterChunk): newChunk goes into the
\* entrypoint's ordered chunk list immediately after afterChunk
insertChunk(H, entrypoint, newChunk, afterChunk) ==
    LET ec == H.entryChunks[entrypoint]
        idx == IndexOf(ec, afterChunk)
    IN [H EXCEPT !.entryChunks[entrypoint] =
           SubSeq(ec, 1, idx) \o <<newChunk>> \o SubSeq(ec, idx + 1, Len(ec))]

RECURSIVE splitEntrypoints(_, _, _, _)
splitEntrypoints(H, this, newChunk, i) ==
    IF i > Len(H.entrypoints[this]) THEN H
    ELSE splitEntrypoints(insertChunk(H, H.entrypoints[this][i], newChunk, this),
                          this, newChunk, i + 1)

split(H, this, newChunk) ==
    LET H1 == splitBlocks(H, this, newChunk, Len(H.blocks[this]), 1)
    IN IF H1.raised THEN H1
       ELSE splitEntrypoints(splitParents(splitChunks(H1, this, newChunk, 1), this, newChunk, 1),
                             this, newChunk, 1)

\* ---- cost model
\* module.size() of the Module collaborator
moduleSize(module) == 50 * (module - 100)

Undefined == 0 - 1

addMultiplierAndOverhead(H, this, sz, options) ==
    LET overhead == IF options.chunkOverhead # Undefined
                    THEN options.chunkOverhead ELSE 10000
        multiplicator == IF isInitial(H, this)
                         THEN (IF options.entryChunkMultiplicator \in {Undefined, 0}
                               THEN 10 ELSE options.entryChunkMultiplicator)
                         ELSE 1
    IN sz * multiplicator + overhead

RECURSIVE SumSizes(_, _)
SumSizes(items, i) ==
    IF i > Len(items) THEN 0 ELSE moduleSize(items[i]) + SumSizes(items, i + 1)

modulesSize(H, this) == SumSizes(H.modules[this].items, 1)

chunkSize(H, this, options) ==
    addMultiplierAndOverhead(H, this, modulesSize(H, this), options)

\* mutant: every module of otherChunk is counted, shared ones twice
integratedSizeCountAll(H, this, otherChunk, options) ==
    IF ~canBeIntegrated(H, this, otherChunk) THEN [mergeable |-> FALSE, value |-> 0]
    ELSE [mergeable |-> TRUE,
          value |-> addMultiplierAndOverhead(H, this,
                        modulesSize(H, this) + modulesSize(H, otherChunk), options)]

integratedSize(H, this, otherChunk, options) ==
    IF ~canBeIntegrated(H, this, otherChunk) THEN [mergeable |-> FALSE, value |-> 0]
    ELSE LET integratedModulesSize ==
                 modulesSize(H, this)
                 + SumSizes(SelectSeq(H.modules[otherChunk].items,
                                      LAMBDA m : ~has(H.modules[this], m)), 1)
         IN [mergeable |-> TRUE,
             value |-> addMultiplierAndOverhead(H, this, integratedModulesSize, options)]

\* ---- sortItems()
\* origin.reasons.sort(): the default order of the reason strings
sortReasons(reasons) ==
    SelectSeq(reasons, LAMBDA r : r = "r1") \o SelectSeq(reasons, LAMBDA r : r # "r1")

\* an origin's number stands for its (module identifier, location) key
sortItems(H, this) ==
    [H EXCEPT !.modules[this] = sortWith(@, "sortById").set,
              !.origins[this] = ArraySort(@, "ascending"),
              !.originReasons = [o \in DOMAIN @ |->
                                    IF o \in Range(H.origins[this])
                                    THEN sortReasons(@[o]) ELSE @[o]],
              !.parents[this] = sort(@).set,
              !.chunks[this] = sort(@).set]

\* ---- DependenciesBlock.addVariable(name, expression, dependencies)
\* new DependenciesBlockVariable(name, expression, dependencies)
DependenciesBlockVariable(name, expression, dependencies) ==
    [name |-> name, expression |-> expression, dependencies |-> dependencies]

\* mutant: a variable of the same name counts as recorded already
addVariableByName(H, this, name, expression, dependencies) ==
    IF \E i \in 1..Len(H.variables[this]) : H.variables[this][i].name = name
    THEN H
    ELSE [H EXCEPT !.variables[this] =
              Append(@, DependenciesBlockVariable(name, expression, dependencies))]

addVariable(H, this, name, expression, dependencies) ==
    IF \E i \in 1..Len(H.variables[this]) :
           H.variables[this][i].name = name /\ H.variables[this][i].expression = expression
    THEN H
    ELSE [H EXCEPT !.variables[this] =
              Append(@, DependenciesBlockVariable(name, expression, dependencies))]

\* ---- DependenciesBlock: the tree of blocks and getIdentForChunk
\* new DependenciesBlock(): no child blocks, no parent
DependenciesBlock(hasIdentifier, blockChunksList) ==
    [blocks |-> <<>>, parent |-> NoBlock, hasIdentifier |-> hasIdentifier,
     chunks |-> blockChunksList]

\* DependenciesBlock.addBlock(block)
treeAddBlock(T, this, block) ==
    [T EXCEPT ![this].blocks = Append(@, block), ![block].parent = this]

\* Array.prototype.indexOf: zero-based, -1 when absent
ArrayIndexOf(s, x) == IndexOf(s, x) - 1

NoIdent == [isNull |-> TRUE, raised |-> FALSE, parts |-> <<>>]

RECURSIVE getIdentForChunkLoop(_, _, _, _)
\* the while(parent) loop: p is read from this.parent on every round
getIdentForChunkLoop(T, this, parent, identParts) ==
    IF parent = NoBlock THEN identParts
    ELSE LET p == T[this].parent
             idx == ArrayIndexOf(T[p].blocks, this)
             l == Len(T[p].blocks) - 1
         IN getIdentForChunkLoop(T, this, T[parent].parent,
                <<[kind |-> "level", a |-> idx, b |-> l]>> \o identParts)

\* the result as the list that is joined with ":"; this.chunks.length throws
\* when the block's chunk list is the null marker
getIdentForChunk(T, this, chunk, context) ==
    IF ~T[this].hasIdentifier THEN NoIdent
    ELSE IF T[this].chunks.isNull THEN [NoIdent EXCEPT !.raised = TRUE]
    ELSE LET list == T[this].chunks.list
             first == IF Len(list) > 1
                      THEN <<[kind |-> "chunk", a |-> ArrayIndexOf(list, chunk), b |-> 0]>>
                      ELSE <<>>
             levels == getIdentForChunkLoop(T, this, T[this].parent, first)
         IN [isNull |-> FALSE, raised |-> FALSE,
             parts |-> <<[kind |-> context, a |-> this, b |-> 0]>> \o levels]

\* ---- getChunkMaps(includeEntries, realHash)
\* the accumulators chunksProcessed, chunkHashMap and chunkNameMap, all empty
NoMaps ==
    [processed |-> <<>>, hash |-> <<>>, name |-> <<>>,
     includeEntries |-> FALSE, realHash |-> FALSE]

\* obj[key] = value on a plain object
PutKey(obj, key, value) ==
    [k \in DOMAIN obj \cup {key} |-> IF k = key THEN value ELSE obj[k]]

\* chunk.hash or chunk.renderedHash, the two digests of a chunk
chunkHash(chunk, realHash) == [of |-> chunk, rendered |-> ~realHash]

\* mutant: chunks that hold the runtime are recorded like the others
getChunkMapsRecordAll(H, M, chunk) ==
    [M EXCEPT !.hash = PutKey(@, id[chunk], chunkHash(chunk, M.realHash)),
              !.name = IF chunkName[chunk] # NoName THEN PutKey(@, id[chunk], chunkName[chunk])
                       ELSE @]

\* the body of the if at lines 413-417, for a chunk just pushed
getChunkMapsRecord(H, M, chunk) ==
    IF ~hasRuntime(H, chunk) \/ M.includeEntries
    THEN [M EXCEPT !.hash = PutKey(@, id[chunk], chunkHash(chunk, M.realHash)),
                   !.name = IF chunkName[chunk] # NoName THEN PutKey(@, id[chunk], chunkName[chunk])
                            ELSE @]
    ELSE M

RECURSIVE getChunkMapsAddChunk(_, _, _), getChunkMapsChildren(_, _, _, _)

\* the inner function addChunk(chunk)
getChunkMapsAddChunk(H, M, chunk) ==
    IF chunk \in Range(M.processed) THEN M
    ELSE getChunkMapsChildren(H,
             getChunkMapsRecord(H, [M EXCEPT !.processed = Append(@, chunk)], chunk),
             chunk, 1)

\* chunk._chunks.forEach(addChunk)
getChunkMapsChildren(H, M, chunk, i) ==
    IF i > size(H.chunks[chunk]) THEN M
    ELSE getChunkMapsChildren(H, getChunkMapsAddChunk(H, M, H.chunks[chunk].items[i]),
                              chunk, i + 1)

getChunkMaps(H, this, includeEntries, realHash) ==
    getChunkMapsAddChunk(H,
        [NoMaps EXCEPT !.includeEntries = includeEntries, !.realHash = realHash], this)

\* ------------------------------------------------------------------ initial states
Entrypoints == {"main"}

\* the members of a set of numbers as an ascending sequence
AscSeq(S) ==
    [k \in 1..Cardinality(S) |-> CHOOSE x \in S : Cardinality({y \in S : y < x}) = k - 1]

\* the graphs the graph builder hands over: every edge recorded on both
\* sides, no chunk its own parent or child
EdgeSets(maxEdges) ==
    {E \in SUBSET {e \in Chunks \X Chunks : e[1] # e[2]} : Cardinality(E) <= maxEdges}

ModuleRefSets(maxRefs) ==
    {M \in SUBSET (Chunks \X Modules) : Cardinality(M) <= maxRefs}

NoVariable == [name |-> "", expression |-> "", dependencies |-> <<>>]

NoOperation ==
    [op |-> "none", this |-> NoChunk, other |-> NoChunk, reason |-> NoReason,
     result |-> FALSE, raised |-> FALSE, variable |-> NoVariable]

NoSetOperation ==
    [op |-> "none", value |-> 0, sortFn |-> NullFn, sorted |-> FALSE, calls |-> 0,
     before |-> [since |-> {}, latest |-> NullFn, added |-> FALSE, deleted |-> FALSE]]

\* new Chunk(name, module, loc) for every chunk, then the builder's wiring
InitHeapTree(E, M, owner, nEntry, names, T) ==
    /\ chunks = [c \in Chunks |->
          SortableSet(AscSeq({d \in Chunks : <<c, d>> \in E}), "sortById", FALSE)]
    /\ parents = [c \in Chunks |->
          SortableSet(AscSeq({d \in Chunks : <<d, c>> \in E}), "sortById", FALSE)]
    /\ modules = [c \in Chunks |->
          SortableSet(AscSeq({m \in Modules : <<c, m>> \in M}), "sortByIdentifier", FALSE)]
    /\ blocks = [c \in Chunks |-> AscSeq({b \in Blocks : owner[b] = c})]
    /\ entrypoints = [c \in Chunks |-> IF c <= nEntry THEN <<"main">> ELSE <<>>]
    /\ origins = [c \in Chunks |-> <<c>>]
    /\ originReasons = [o \in Chunks |-> <<>>]
    /\ blockChunks = [b \in Blocks |-> ChunkList(<<owner[b]>>)]
    /\ chunkReason = [b \in Blocks |-> NoReason]
    /\ entryChunks = [e \in Entrypoints |-> AscSeq(1..nEntry)]
    /\ variables = [b \in Blocks |-> <<>>]
    /\ chunkName = names
    /\ maps = NoMaps
    /\ tree = T
    /\ ident = NoIdent
    /\ id = [c \in Chunks |-> NullId]
    /\ moduleId = [m \in Modules |-> NullId]
    /\ pre = Heap
    /\ last = NoOperation

\* the same with dependency blocks that all have an identifier and one chunk
InitHeapNamed(E, M, owner, nEntry, names) ==
    InitHeapTree(E, M, owner, nEntry, names,
                 [b \in DependenciesBlocks |-> DependenciesBlock(TRUE, ChunkList(<<1>>))])

\* the same with every chunk constructed without a name
InitHeap(E, M, owner, nEntry) ==
    InitHeapNamed(E, M, owner, nEntry, [c \in Chunks |-> NoName])

\* new SortableSet(undefined, defaultSort, noCache)
InitSet(defaultSort, noCache) ==
    /\ set = SortableSet(<<>>, defaultSort, noCache)
    /\ setPre = set
    /\ setLast = NoSetOperation
    /\ ran = NoSetOperation.before

Init ==
    /\ \E E \in EdgeSets(MaxEdges), M \in ModuleRefSets(MaxModuleRefs),
          owner \in [Blocks -> Chunks], nEntry \in 0..MaxEntryChunks :
          InitHeap(E, M, owner, nEntry)
    /\ InitSet("ascending", FALSE)
    /\ opsLeft = MaxOps

\* ------------------------------------------------------------------ operations
\* a chunk as its constructor leaves it, known to nothing else yet
Fresh(c) ==
    /\ size(chunks[c]) = 0 /\ size(parents[c]) = 0 /\ size(modules[c]) = 0
    /\ blocks[c] = <<>> /\ entrypoints[c] = <<>>
    /\ \A d \in Chunks : ~has(chunks[d], c) /\ ~has(parents[d], c)
    /\ \A b \in Blocks : c \notin Range(blockChunks[b].list)
    /\ \A e \in Entrypoints : c \notin Range(entryChunks[e])

\* an uncaught exception aborts the compilation
CanCall == opsLeft > 0 /\ ~last.raised

Call(op, H, this, other, reason, result) ==
    /\ chunks' = H.chunks
    /\ parents' = H.parents
    /\ modules' = H.modules
    /\ blocks' = H.blocks
    /\ entrypoints' = H.entrypoints
    /\ origins' = H.origins
    /\ originReasons' = H.originReasons
    /\ blockChunks' = H.blockChunks
    /\ chunkReason' = H.chunkReason
    /\ entryChunks' = H.entryChunks
    /\ variables' = H.variables
    /\ pre' = Heap
    /\ last' = [op |-> op, this |-> this, other |-> other, reason |-> reason,
                result |-> result, raised |-> H.raised, variable |-> NoVariable]
    /\ opsLeft' = opsLeft - 1
    /\ UNCHANGED <<id, moduleId, chunkName, maps, tree, ident, setVars>>

AddChunk ==
    /\ CanCall
    /\ \E this \in Chunks, chunk \in Chunks :
          Call("addChunk", addChunk(Heap, this, chunk), this, chunk, NoReason,
               addChunkResult(Heap, this, chunk))

AddParent ==
    /\ CanCall
    /\ \E this \in Chunks, parentChunk \in Chunks :
          Call("addParent", addParent(Heap, this, parentChunk), this, parentChunk, NoReason,
               addParentResult(Heap, this, parentChunk))

RemoveChunk ==
    /\ CanCall
    /\ \E this \in Chunks, chunk \in Chunks :
          Call("removeChunk", removeChunk(Heap, this, chunk), this, chunk, NoReason,
               removeChunkResult(Heap, this, chunk))

RemoveParent ==
    /\ CanCall
    /\ \E this \in Chunks, chunk \in Chunks :
          Call("removeParent", removeParent(Heap, this, chunk), this, chunk, NoReason,
               removeParentResult(Heap, this, chunk))

Integrate ==
    /\ CanCall
    /\ \E this \in Chunks, otherChunk \in Chunks, reason \in Reasons :
          Call("integrate", integrate(Heap, this, otherChunk, reason), this, otherChunk,
               reason, canBeIntegrated(Heap, this, otherChunk))

Split ==
    /\ CanCall
    /\ \E this \in Chunks, newChunk \in Chunks :
          /\ newChunk # this
          /\ Fresh(newChunk)
          /\ Call("split", split(Heap, this, newChunk), this, newChunk, NoReason, FALSE)

Remove ==
    /\ CanCall
    /\ \E this \in Chunks, reason \in Reasons :
          Call("remove", remove(Heap, this, reason), this, NoChunk, reason, FALSE)

Next ==
    \/ AddChunk
    \/ AddParent
    \/ RemoveChunk
    \/ RemoveParent
    \/ Integrate
    \/ Split
    \/ Remove

Spec == Init /\ [][Next]_vars

\* ---- the same operations on chunks as their constructors leave them: the
\* edges are all still to add
InitScratch ==
    /\ \E owner \in [Blocks -> Chunks], nEntry \in 0..MaxEntryChunks :
          InitHeap({}, {}, owner, nEntry)
    /\ InitSet("ascending", FALSE)
    /\ opsLeft = MaxScratchOps

SpecScratch == InitScratch /\ [][Next]_vars

\* ---- the same operations on graphs with more modules and entry chunks, for
\* the cost model
InitCost ==
    /\ \E E \in EdgeSets(MaxCostEdges), M \in ModuleRefSets(MaxCostModuleRefs),
          owner \in [Blocks -> Chunks], nEntry \in 0..MaxCostEntryChunks :
          InitHeap(E, M, owner, nEntry)
    /\ InitSet("ascending", FALSE)
    /\ opsLeft = MaxCostOps

SpecCost == InitCost /\ [][Next]_vars

\* ---- the same operations on every graph the builder can hand over, dense
\* ones included
InitMerge ==
    /\ \E E \in EdgeSets(MaxMergeEdges), nEntry \in 0..MaxEntryChunks :
          InitHeap(E, {}, [b \in Blocks |-> 1], nEntry)
    /\ InitSet("ascending", FALSE)
    /\ opsLeft = MaxMergeOps

SpecMerge == InitMerge /\ [][Next]_vars

\* ---- sealing: ids are assigned by an external pass, sortItems canonicalizes
SortItems ==
    /\ CanCall
    /\ \E this \in Chunks :
          Call("sortItems", sortItems(Heap, this), this, NoChunk, NoReason, FALSE)

AssignChunkId ==
    /\ CanCall
    /\ \E c \in Chunks, v \in Ids :
          /\ id' = [id EXCEPT ![c] = v]
          /\ pre' = Heap
          /\ last' = [NoOperation EXCEPT !.op = "assignChunkId", !.this = c]
          /\ opsLeft' = opsLeft - 1
          /\ UNCHANGED <<heapVars, moduleId, chunkName, maps, tree, ident, setVars>>

AssignModuleId ==
    /\ CanCall
    /\ \E m \in Modules, v \in Ids :
          /\ moduleId' = [moduleId EXCEPT ![m] = v]
          /\ pre' = Heap
          /\ last' = [NoOperation EXCEPT !.op = "assignModuleId"]
          /\ opsLeft' = opsLeft - 1
          /\ UNCHANGED <<heapVars, id, chunkName, maps, tree, ident, setVars>>

InitSort ==
    /\ \E E \in EdgeSets(MaxEdges) :
          InitHeap(E, Chunks \X Modules, [b \in Blocks |-> 1], 0)
    /\ InitSet("ascending", FALSE)
    /\ opsLeft = MaxSortOps

NextSort ==
    \/ SortItems
    \/ AssignChunkId
    \/ AssignModuleId
    \/ AddChunk
    \/ AddParent

SpecSort == InitSort /\ [][NextSort]_vars

\* ---- reading the chunk maps of graphs with named chunks and assigned ids
GetChunkMaps ==
    /\ CanCall
    /\ \E this \in Chunks, includeEntries \in BOOLEAN, realHash \in BOOLEAN :
          /\ maps' = getChunkMaps(Heap, this, includeEntries, realHash)
          /\ pre' = Heap
          /\ last' = [NoOperation EXCEPT !.op = "getChunkMaps", !.this = this]
          /\ opsLeft' = opsLeft - 1
          /\ UNCHANGED <<heapVars, id, moduleId, chunkName, tree, ident, setVars>>

InitMaps ==
    /\ \E E \in EdgeSets(MaxMapEdges), nEntry \in 0..MaxMapEntryChunks,
          names \in [Chunks -> Names \cup {NoName}] :
          InitHeapNamed(E, {}, [b \in Blocks |-> 1], nEntry, names)
    /\ InitSet("ascending", FALSE)
    /\ opsLeft = MaxMapOps

NextMaps ==
    \/ GetChunkMaps
    \/ AssignChunkId
    \/ AddChunk

SpecMaps == InitMaps /\ [][NextMaps]_vars

\* ---- the variables of dependency blocks
VariableNames == {"x", "y"}

Expressions == {"e1", "e2"}

DependencyLists == {<<>>, <<"d1">>}

AddVariable ==
    \E this \in Blocks, name \in VariableNames, expression \in Expressions,
       dependencies \in DependencyLists :
        /\ variables' = addVariable(Heap, this, name, expression, dependencies).variables
        /\ pre' = Heap
        /\ last' = [NoOperation EXCEPT
                       !.op = "addVariable", !.this = this,
                       !.variable = DependenciesBlockVariable(name, expression, dependencies)]
        /\ UNCHANGED <<chunks, parents, modules, blocks, entrypoints, origins,
                       originReasons, blockChunks, chunkReason, entryChunks,
                       id, moduleId, chunkName, maps, tree, ident, setVars, opsLeft>>

InitVariables ==
    /\ InitHeap({}, {}, [b \in Blocks |-> 1], 0)
    /\ InitSet("ascending", FALSE)
    /\ opsLeft = 0

NextVariables == AddVariable

SpecVariables == InitVariables /\ [][NextVariables]_vars

\* ---- the tree of dependency blocks as the parser builds it
RECURSIVE Ancestors(_, _)
\* the blocks on the parent chain of b
Ancestors(T, b) ==
    IF T[b].parent = NoBlock THEN {} ELSE {T[b].parent} \cup Ancestors(T, T[b].parent)

\* a block is added once, to a block that is not below it
TreeAddBlock ==
    \E this \in DependenciesBlocks, block \in DependenciesBlocks :
        /\ block # this
        /\ tree[block].parent = NoBlock
        /\ block \notin Ancestors(tree, this)
        /\ tree' = treeAddBlock(tree, this, block)
        /\ last' = [NoOperation EXCEPT !.op = "addBlock", !.this = this, !.other = block]
        /\ UNCHANGED <<heapVars, id, moduleId, chunkName, maps, ident, setVars, pre, opsLeft>>

GetIdentForChunk ==
    \E this \in DependenciesBlocks, chunk \in Chunks, context \in Contexts :
        /\ ident' = getIdentForChunk(tree, this, chunk, context)
        /\ last' = [NoOperation EXCEPT !.op = "getIdentForChunk", !.this = this,
                                       !.other = chunk]
        /\ UNCHANGED <<heapVars, id, moduleId, chunkName, maps, tree, setVars, pre, opsLeft>>

\* blocks with and without an identifier, producing no, one or two chunks
TreeShapes ==
    {T \in [DependenciesBlocks ->
               {DependenciesBlock(h, c) :
                    h \in BOOLEAN, c \in {NullChunks, ChunkList(<<1>>), ChunkList(<<2, 1>>)}}] :
        /\ Cardinality({b \in DependenciesBlocks : ~T[b].hasIdentifier}) <= MaxUnidentified
        /\ Cardinality({b \in DependenciesBlocks : T[b].chunks # ChunkList(<<1>>)})
              <= MaxOtherChunkLists}

InitTree ==
    /\ \E T \in TreeShapes :
          InitHeapTree({}, {}, [b \in Blocks |-> 1], 0, [c \in Chunks |-> NoName], T)
    /\ InitSet("ascending", FALSE)
    /\ opsLeft = 0

NextTree ==
    \/ TreeAddBlock
    \/ GetIdentForChunk

SpecTree == InitTree /\ [][NextTree]_vars

\* ---- a SortableSet on its own
SetCall(op, s, value, sortFn, sorted, calls) ==
    /\ set' = s
    /\ setPre' = set
    /\ setLast' = [op |-> op, value |-> value, sortFn |-> sortFn, sorted |-> sorted,
                   calls |-> calls, before |-> ran]
    /\ UNCHANGED <<heapVars, id, moduleId, chunkName, maps, tree, ident, pre, last, opsLeft>>

SetAdd ==
    \E value \in Values :
        /\ SetCall("add", add(set, value), value, NullFn, FALSE, 0)
        /\ ran' = [since |-> {}, latest |-> NullFn, added |-> TRUE, deleted |-> FALSE]

SetDelete ==
    \E value \in Values :
        /\ SetCall("delete", delete(set, value), value, NullFn, FALSE, 0)
        /\ ran' = [ran EXCEPT !.deleted = TRUE]

SetClear ==
    /\ SetCall("clear", clear(set), 0, NullFn, FALSE, 0)
    /\ ran' = [ran EXCEPT !.deleted = TRUE]

SetSortWith ==
    \E sortFn \in Comparators :
        /\ SetCall("sortWith", sortWith(set, sortFn).set, 0, sortFn,
                   sortWith(set, sortFn).sorted, sortWith(set, sortFn).calls)
        /\ ran' = [since |-> ran.since \cup {sortFn}, latest |-> sortFn,
                   added |-> FALSE, deleted |-> FALSE]

SetSort ==
    /\ SetCall("sort", sort(set).set, 0, set.sortFn, sort(set).sorted, sort(set).calls)
    /\ ran' = [since |-> ran.since \cup {set.sortFn}, latest |-> set.sortFn,
               added |-> FALSE, deleted |-> FALSE]

InitSortableSet ==
    /\ InitHeap({}, {}, [b \in Blocks |-> 1], 0)
    /\ \E defaultSort \in Comparators, noCache \in BOOLEAN : InitSet(defaultSort, noCache)
    /\ opsLeft = 0

NextSet ==
    \/ SetAdd
    \/ SetDelete
    \/ SetClear
    \/ SetSortWith
    \/ SetSort

SpecSet == InitSortableSet /\ [][NextSet]_vars


\* ================================================================== claims
Symmetric(H) ==
    \A A \in Chunks, B \in Chunks : has(H.chunks[A], B) <=> has(H.parents[B], A)

NoSelfEdge(H) ==
    \A A \in Chunks : ~has(H.chunks[A], A) /\ ~has(H.parents[A], A)

\* C1: in every reachable state, for all chunks A and B, B is in A's children
\* if and only if A is in B's parents (checkConstraints raises on no chunk).
C1_EdgeSymmetry == Symmetric(Heap)

\* C2: in every reachable state no chunk is a member of its own children set
\* or of its own parents set.
C2_NoSelfEdge == NoSelfEdge(Heap)

\* C3: when X.remove(reason) returns from a call made in a symmetric graph,
\* every chunk C that was a child of X is in the children of every chunk P that
\* was a parent of X, and P is in C's parents.
C3_RemovePreservesReachability ==
    (last.op = "remove" /\ ~last.raised /\ Symmetric(pre)) =>
        \A P \in Range(pre.parents[last.this].items),
           C \in Range(pre.chunks[last.this].items) :
            has(chunks[P], C) /\ has(parents[C], P)

\* C4: a block's chunk list is the null marker or a non-empty list, never an
\* empty list; when a remove turns it into the null marker the block's
\* chunkReason is that remove's reason, and it stays so while the marker stays.
C4_BlockChunksNeverEmpty ==
    \A b \in Blocks :
        /\ blockChunks[b].isNull \/ Len(blockChunks[b].list) >= 1
        /\ (last.op = "remove" /\ ~pre.blockChunks[b].isNull /\ blockChunks[b].isNull)
              => chunkReason[b] = last.reason
        /\ (pre.blockChunks[b].isNull /\ blockChunks[b].isNull)
              => chunkReason[b] = pre.chunkReason[b]

C4_Witness ==
    /\ last.op = "remove"
    /\ \E b \in Blocks :
          /\ Len(pre.blockChunks[b].list) >= 1
          /\ blockChunks[b].isNull
          /\ chunkReason[b] = last.reason

\* C5: canBeIntegrated(other) is false when other is initial; when other is not
\* initial and self is initial it is true exactly when other's parents are self
\* and nothing else; when neither is initial it is true.
C5_CanBeIntegrated ==
    \A self \in Chunks, other \in Chunks :
        canBeIntegrated(Heap, self, other) =
            IF Len(entrypoints[other]) >= 1 THEN FALSE
            ELSE IF Len(entrypoints[self]) >= 1 THEN parents[other].items = <<self>>
            ELSE TRUE

C5_Witness ==
    \E self \in Chunks, other \in Chunks, third \in Chunks :
        /\ Len(entrypoints[self]) >= 1 /\ Len(entrypoints[other]) = 0
        /\ Len(entrypoints[third]) >= 1 /\ third # self
        /\ parents[other].items = <<self>>
        /\ canBeIntegrated(Heap, self, other)
        /\ ~canBeIntegrated(Heap, third, other)
        /\ ~canBeIntegrated(Heap, other, self)

\* C6: an integrate that canBeIntegrated refuses returns false, raises nothing
\* and leaves every chunk, block and origin as it was.
C6_RefusedIntegrateChangesNothing ==
    (last.op = "integrate" /\ ~last.result) => (~last.raised /\ Heap = pre)

C6_Witness ==
    /\ last.op = "integrate" /\ ~last.result
    /\ last.this # last.other
    /\ size(parents[last.other]) + size(chunks[last.other]) >= 1
    /\ size(modules[last.other]) >= 1

\* ---- C7
OptionsSet ==
    [chunkOverhead : {Undefined, 0, 10000}, entryChunkMultiplicator : {Undefined, 0, 2, 10}]

RECURSIVE SumOver(_)
SumOver(S) ==
    IF S = {} THEN 0
    ELSE LET m == CHOOSE x \in S : TRUE IN moduleSize(m) + SumOver(S \ {m})

Members(c) == Range(modules[c].items)

\* the value the claim gives, with `zeroDefaults` telling whether a multiplier
\* of 0 counts as absent
ClaimedSize(self, other, options, zeroDefaults) ==
    LET overhead == IF options.chunkOverhead = Undefined THEN 10000
                    ELSE options.chunkOverhead
        given == options.entryChunkMultiplicator
        multiplier == IF Len(entrypoints[self]) = 0 THEN 1
                      ELSE IF given = Undefined \/ (zeroDefaults /\ given = 0) THEN 10
                      ELSE given
    IN (SumOver(Members(self)) + SumOver(Members(other) \ Members(self))) * multiplier
       + overhead

\* C7 as stated: integratedSize is the not-mergeable sentinel when
\* canBeIntegrated is false, and otherwise (size of self's modules + size of
\* other's modules not in self) * multiplier + overhead, the multiplier being
\* options.entryChunkMultiplicator, 10 when it is absent, for an initial self.
C7_IntegratedSizeAsStated ==
    \A self \in Chunks, other \in Chunks, options \in OptionsSet :
        IF ~canBeIntegrated(Heap, self, other)
        THEN ~integratedSize(Heap, self, other, options).mergeable
        ELSE /\ integratedSize(Heap, self, other, options).mergeable
             /\ integratedSize(Heap, self, other, options).value
                   = ClaimedSize(self, other, options, FALSE)

\* C7 amended: the same, the multiplier being 10 also when
\* options.entryChunkMultiplicator is 0.
C7_IntegratedSize ==
    \A self \in Chunks, other \in Chunks, options \in OptionsSet :
        IF ~canBeIntegrated(Heap, self, other)
        THEN ~integratedSize(Heap, self, other, options).mergeable
        ELSE /\ integratedSize(Heap, self, other, options).mergeable
             /\ integratedSize(Heap, self, other, options).value
                   = ClaimedSize(self, other, options, TRUE)

\* initial A holding 100, non-initial B with sole parent A holding 50: 11500
C7_Witness ==
    \E A \in Chunks, B \in Chunks :
        /\ Len(entrypoints[A]) >= 1 /\ Len(entrypoints[B]) = 0
        /\ parents[B].items = <<A>>
        /\ modules[A].items = <<102>> /\ modules[B].items = <<101>>
        /\ integratedSize(Heap, A, B,
               [chunkOverhead |-> 10000, entryChunkMultiplicator |-> 10]).value = 11500
        /\ integratedSize(Heap, A, B,
               [chunkOverhead |-> Undefined, entryChunkMultiplicator |-> Undefined]).value
              = 11500

\* ---- C8, C9
IsSortedBy(items, fn) ==
    \A i \in 1..Len(items), j \in 1..Len(items) :
        i < j => Compare(fn, items[i], items[j]) <= 0

IsSortCall == setLast.op \in {"sortWith", "sort"}

\* C8 as stated: with no-cache mode off, a sortWith whose comparator sortWith
\* already ran with, no add() in between, invokes the comparator zero times and
\* leaves the order unchanged, whatever was deleted in between; and a sortWith
\* that follows an add() sorts again (an empty set has nothing to sort).
C8_CacheHitAsStated ==
    (IsSortCall /\ ~set.noCache) =>
        /\ setLast.sortFn \in setLast.before.since
              => (setLast.calls = 0 /\ set.items = setPre.items)
        /\ (setLast.before.added /\ size(setPre) >= 1) => setLast.sorted

\* C8 amended: the same for a comparator that is the one of the most recent
\* sortWith, no add() and no sortWith with another comparator in between.
C8_CacheHit ==
    (IsSortCall /\ ~set.noCache) =>
        /\ setLast.sortFn = setLast.before.latest
              => (~setLast.sorted /\ setLast.calls = 0 /\ set.items = setPre.items)
        /\ (setLast.before.added /\ size(setPre) >= 1) => setLast.sorted

C8_Witness ==
    /\ IsSortCall /\ ~set.noCache
    /\ setLast.sortFn = setLast.before.latest
    /\ setLast.before.deleted
    /\ size(set) >= 2
    /\ setLast.calls = 0

\* C9: right after sortWith(cmp) the set iterates in non-decreasing cmp order
\* with the members it had before the call; so whenever a comparator is
\* remembered the current order is sorted by it.
C9_NeverStaleOrder ==
    /\ set.lastActiveSortFn # NullFn => IsSortedBy(set.items, set.lastActiveSortFn)
    /\ IsSortCall =>
          /\ IsSortedBy(set.items, setLast.sortFn)
          /\ Range(set.items) = Range(setPre.items)
          /\ size(set) = size(setPre)

C9_Witness ==
    /\ IsSortCall /\ ~set.noCache
    /\ ~setLast.sorted
    /\ setLast.before.deleted
    /\ size(set) >= 2
    /\ set.lastActiveSortFn = "descending"
    /\ IsSortedBy(set.items, "descending")

\* C10: right after chunk.sortItems() the chunk's modules, parents and
\* children each iterate in ascending id order.
C10_SortItemsSortsById ==
    last.op = "sortItems" =>
        /\ IsSortedBy(modules[last.this].items, "sortById")
        /\ IsSortedBy(parents[last.this].items, "sortById")
        /\ IsSortedBy(chunks[last.this].items, "sortById")

\* ---- C11
IntegrateMerged ==
    last.op = "integrate" /\ last.result /\ ~last.raised /\ last.this # last.other

\* C11: after self.integrate(other, reason) returns true, self and other
\* distinct, self's modules are the union of self's and other's modules before
\* the call, and other has no modules, no parents, no children and no blocks.
C11_IntegrateMovesModules ==
    IntegrateMerged =>
        /\ Range(modules[last.this].items)
              = Range(pre.modules[last.this].items) \cup Range(pre.modules[last.other].items)
        /\ size(modules[last.other]) = 0
        /\ size(parents[last.other]) = 0
        /\ size(chunks[last.other]) = 0
        /\ blocks[last.other] = <<>>

\* the same for a merge called in a graph without self-edges
C11_IntegrateMovesModulesNoSelfEdge ==
    (IntegrateMerged /\ NoSelfEdge(pre)) => C11_IntegrateMovesModules

\* ---- C12
Rewired ==
    /\ \A P \in Range(pre.parents[last.other].items) \ {last.this} :
          has(chunks[P], last.this)
    /\ \A C \in Range(pre.chunks[last.other].items) \ {last.this} :
          has(chunks[last.this], C)
    /\ \A X \in Chunks : ~has(parents[X], last.other) /\ ~has(chunks[X], last.other)
    /\ ~has(parents[last.this], last.this) /\ ~has(chunks[last.this], last.this)

IntegrateReturnedTrue == last.op = "integrate" /\ last.result /\ ~last.raised

\* C12: in a symmetric graph, after self.integrate(other, reason) returns true,
\* every parent of other except self has self among its children, every child
\* of other except self is among self's children, no chunk has other as a
\* parent or child, and self is neither its own parent nor its own child.
C12_IntegrateRewiresEdges ==
    (IntegrateReturnedTrue /\ Symmetric(pre)) => Rewired

\* the same for distinct self and other
C12_IntegrateRewiresEdgesDistinct ==
    (IntegrateMerged /\ Symmetric(pre)) => Rewired

\* the same for distinct self and other in a graph without self-edges
C12_IntegrateRewiresEdgesWellFormed ==
    (IntegrateMerged /\ Symmetric(pre) /\ NoSelfEdge(pre)) => Rewired

\* ---- C13, C14
RemoveReturned == last.op = "remove" /\ ~last.raised

\* C13: after X.remove(reason) returns, X's own parents set and children set
\* are empty and no chunk has X in its parents or children.
C13_RemoveClearsEdges ==
    RemoveReturned =>
        /\ size(parents[last.this]) = 0
        /\ size(chunks[last.this]) = 0
        /\ \A A \in Chunks : ~has(parents[A], last.this) /\ ~has(chunks[A], last.this)

\* C14: after X.remove(reason) returns, X occurs in the chunk list of no block
\* of X.blocks.
C14_RemoveLeavesNoBlockReference ==
    RemoveReturned =>
        \A b \in Range(blocks[last.this]) : last.this \notin Range(blockChunks[b].list)

\* ---- C16
\* C16: split, integrate and remove complete without raising in every state
\* reachable through add*, remove*, integrate, split and remove.
C16_NeverRaises == ~last.raised

\* ---- C15
SplitReturned == last.op = "split" /\ ~last.raised

SplitCopied ==
    LET self == last.this
        newChunk == last.other
    IN /\ Range(chunks[newChunk].items) = Range(pre.chunks[self].items)
       /\ Range(parents[newChunk].items) = Range(pre.parents[self].items)
       /\ blocks[newChunk] = pre.blocks[self]
       /\ \A b \in Range(pre.blocks[self]) :
             blockChunks[b] = ChunkList(Append(pre.blockChunks[b].list, newChunk))
       /\ \A A \in Chunks :
             /\ has(chunks[newChunk], A) <=> has(parents[A], newChunk)
             /\ has(parents[newChunk], A) <=> has(chunks[A], newChunk)
       /\ size(modules[newChunk]) = 0
       /\ modules[self].items = pre.modules[self].items
       /\ parents[self].items = pre.parents[self].items
       /\ chunks[self].items = pre.chunks[self].items
       /\ blocks[self] = pre.blocks[self]

\* C15: after self.split(newChunk) with a fresh newChunk in a symmetric graph,
\* newChunk's children and parents equal self's, newChunk's blocks equal self's
\* blocks with newChunk appended to each such block's chunk list, every edge of
\* newChunk is recorded on both sides, newChunk has no modules, and self's
\* modules, parents, children and blocks are unchanged.
C15_SplitCopiesEdgesAndBlocks ==
    (SplitReturned /\ Symmetric(pre)) => SplitCopied

\* the same in a graph that also has no self-edges
C15_SplitCopiesEdgesAndBlocksWellFormed ==
    (SplitReturned /\ Symmetric(pre) /\ NoSelfEdge(pre)) => SplitCopied

\* ---- C17
\* the edge A -> C is gone on both sides and every other edge is as before
EdgeRemoved(A, C) ==
    /\ ~has(chunks[A], C) /\ ~has(parents[C], A)
    /\ \A X \in Chunks, Y \in Chunks :
          <<X, Y>> # <<A, C>> =>
              /\ has(chunks[X], Y) <=> has(pre.chunks[X], Y)
              /\ has(parents[Y], X) <=> has(pre.parents[Y], X)

\* C17: in a symmetric graph A.removeChunk(C) returns true iff C was a child
\* of A and afterwards the edge is gone from A's children and from C's
\* parents, every other edge unchanged; likewise C.removeParent(A); neither
\* raises, and the same call again returns false and changes nothing.
C17_RemoveEdgeBothSides ==
    /\ (last.op = "removeChunk" /\ Symmetric(pre)) =>
          /\ ~last.raised
          /\ last.result <=> has(pre.chunks[last.this], last.other)
          /\ EdgeRemoved(last.this, last.other)
          /\ ~removeChunkResult(Heap, last.this, last.other)
          /\ removeChunk(Heap, last.this, last.other) = Heap
    /\ (last.op = "removeParent" /\ Symmetric(pre)) =>
          /\ ~last.raised
          /\ last.result <=> has(pre.parents[last.this], last.other)
          /\ EdgeRemoved(last.other, last.this)
          /\ ~removeParentResult(Heap, last.this, last.other)
          /\ removeParent(Heap, last.this, last.other) = Heap

C17_Witness ==
    /\ last.op = "removeChunk" /\ last.result /\ Symmetric(pre)
    /\ has(pre.parents[last.other], last.this)
    /\ size(pre.parents[last.other]) >= 2
    /\ size(parents[last.other]) >= 1
    /\ ~has(parents[last.other], last.this)

\* ---- C18
RECURSIVE ReachableFrom(_)
\* the chunks reachable through child edges from the chunks of S, S included
ReachableFrom(S) ==
    LET N == S \cup {c \in Chunks : \E p \in S : has(chunks[p], c)}
    IN IF N = S THEN S ELSE ReachableFrom(N)

\* C18: getChunkMaps returns on every child graph, has processed exactly the
\* chunks reachable from the start chunk through child edges, each once, and
\* the keys of its hash map are the ids of those among them whose hasRuntime()
\* is false, or of all of them when includeEntries is set.
C18_GetChunkMapsVisitsReachableOnce ==
    last.op = "getChunkMaps" =>
        /\ Range(maps.processed) = ReachableFrom({last.this})
        /\ Len(maps.processed) = Cardinality(Range(maps.processed))
        /\ DOMAIN maps.hash =
              {id[c] : c \in {d \in ReachableFrom({last.this}) :
                                 ~hasRuntime(Heap, d) \/ maps.includeEntries}}

\* a cycle through the start chunk, a chunk holding the runtime left out
C18_Witness ==
    /\ last.op = "getChunkMaps" /\ ~maps.includeEntries
    /\ Len(maps.processed) = NumChunks
    /\ \E c \in Chunks : c # last.this /\ has(chunks[c], last.this)
    /\ \E c \in Range(maps.processed) : hasRuntime(Heap, c)
    /\ Cardinality(DOMAIN maps.hash) >= 2

\* ---- C19
SameKey(v, w) == v.name = w.name /\ v.expression = w.expression

\* C19: no two variables recorded on a block share both name and expression;
\* an addVariable whose (name, expression) is recorded already changes
\* nothing, any other appends exactly that variable at the end, the earlier
\* ones keeping their order.
C19_AddVariableDeduplicates ==
    /\ \A b \in Blocks : \A i \in 1..Len(variables[b]), j \in 1..Len(variables[b]) :
          i # j => ~SameKey(variables[b][i], variables[b][j])
    /\ last.op = "addVariable" =>
          /\ \A b \in Blocks \ {last.this} : variables[b] = pre.variables[b]
          /\ IF \E i \in 1..Len(pre.variables[last.this]) :
                    SameKey(pre.variables[last.this][i], last.variable)
             THEN variables[last.this] = pre.variables[last.this]
             ELSE variables[last.this] = Append(pre.variables[last.this], last.variable)

\* ("x", "e1") recorded once although added again with other dependencies,
\* ("x", "e2") recorded after it
C19_Witness ==
    /\ last.op = "addVariable"
    /\ \E b \in Blocks :
          /\ Len(variables[b]) = 2
          /\ SameKey(variables[b][1], [name |-> "x", expression |-> "e1"])
          /\ SameKey(variables[b][2], [name |-> "x", expression |-> "e2"])
          /\ last.this = b
          /\ SameKey(last.variable, variables[b][1])
          /\ last.variable.dependencies # variables[b][1].dependencies
          /\ variables[b] = pre.variables[b]

\* ---- C20
\* C20: if the graph is symmetric and has no self-edges before
\* self.integrate(other, reason), self and other distinct, then after it
\* returns true the graph is symmetric and has no self-edges, other included.
C20_IntegratePreservesWellFormedness ==
    (IntegrateMerged /\ Symmetric(pre) /\ NoSelfEdge(pre)) =>
        (Symmetric(Heap) /\ NoSelfEdge(Heap))

\* other was both a parent and a child of self, and a third chunk a parent of both
C20_Witness ==
    /\ IntegrateMerged /\ Symmetric(pre) /\ NoSelfEdge(pre)
    /\ has(pre.chunks[last.this], last.other) /\ has(pre.chunks[last.other], last.this)
    /\ \E P \in Chunks \ {last.this, last.other} :
          /\ has(pre.chunks[P], last.this) /\ has(pre.chunks[P], last.other)
          /\ has(chunks[P], last.this) /\ ~has(chunks[P], last.other)
    /\ Symmetric(Heap) /\ NoSelfEdge(Heap)

\* ---- C21
\* C21: if the graph is symmetric and has no self-edges before
\* X.remove(reason), then afterwards, among the chunks other than X, every
\* edge is recorded on both sides and no chunk is its own parent or child.
C21_RemovePreservesWellFormedness ==
    (RemoveReturned /\ Symmetric(pre) /\ NoSelfEdge(pre)) =>
        \A A \in Chunks \ {last.this} :
            /\ ~has(chunks[A], A) /\ ~has(parents[A], A)
            /\ \A B \in Chunks \ {last.this} : has(chunks[A], B) <=> has(parents[B], A)

\* the part of it about symmetry alone
C21_RemoveKeepsSymmetryOfTheRest ==
    (RemoveReturned /\ Symmetric(pre) /\ NoSelfEdge(pre)) =>
        \A A \in Chunks \ {last.this}, B \in Chunks \ {last.this} :
            has(chunks[A], B) <=> has(parents[B], A)

\* ---- C22
RECURSIVE LevelComponents(_)
\* one component per ancestor level of b, outermost first: the position of the
\* block at that level in its own parent's child list, and its sibling count
LevelComponents(b) ==
    IF tree[b].parent = NoBlock THEN <<>>
    ELSE LevelComponents(tree[b].parent)
         \o <<[kind |-> "level",
               a |-> ArrayIndexOf(tree[tree[b].parent].blocks, b),
               b |-> Len(tree[tree[b].parent].blocks) - 1]>>

\* C22: for a block with an identifier, the result of getIdentForChunk has one
\* index/count component per ancestor level, each the position and sibling
\* count of the block at that level within its own parent's child list.
C22_IdentNamesEveryLevel ==
    (last.op = "getIdentForChunk" /\ ~ident.isNull /\ ~ident.raised) =>
        SelectSeq(ident.parts, LAMBDA part : part.kind = "level")
            = LevelComponents(last.this)

\* the part of it about the number of components
C22_IdentHasOneComponentPerLevel ==
    (last.op = "getIdentForChunk" /\ ~ident.isNull /\ ~ident.raised) =>
        Len(SelectSeq(ident.parts, LAMBDA part : part.kind = "level"))
            = Cardinality(Ancestors(tree, last.this))

\* ---- C23
\* C23: when self.integrate(other, reason) has merged two distinct chunks,
\* self.integratedSize(other, options) evaluated before the call equals
\* self.size(options) evaluated after it, for every options.
C23_EstimateAgreesWithMerge ==
    IntegrateMerged =>
        \A options \in OptionsSet :
            /\ integratedSize(pre, last.this, last.other, options).mergeable
            /\ integratedSize(pre, last.this, last.other, options).value
                  = chunkSize(Heap, last.this, options)

\* an initial self that already held one of other's modules
C23_Witness ==
    /\ IntegrateMerged
    /\ isInitial(Heap, last.this)
    /\ \E m \in Modules : has(pre.modules[last.this], m) /\ has(pre.modules[last.other], m)
    /\ size(modules[last.this]) >= 1
    /\ chunkSize(Heap, last.this, [chunkOverhead |-> Undefined,
                                   entryChunkMultiplicator |-> Undefined])
          = 10 * modulesSize(Heap, last.this) + 10000
====
